---- MODULE Spec2Model ----
(***************************************************************************)
(* A model of the USI engine driver of the shogi application:             *)
(*   usi/commands.rs  the command encoder (pure functions),               *)
(*   usi/parser.rs    the response parser (pure functions),               *)
(*   usi/engine.rs    UsiEngine: the child process, the reader thread,    *)
(*                    the shared response buffer and the protocol calls.  *)
(* Lines are TLA+ strings; the string operators below compute on their    *)
(* characters as the Rust code does.                                      *)
(***************************************************************************)
EXTENDS Integers, Sequences, FiniteSets, TLC

(***************************************************************************)
(* Strings                                                                 *)
(***************************************************************************)

\* The i-th character of s, as a string of length 1.
CharAt(s, i) == SubSeq(s, i, i)

\* char::is_whitespace, on the characters the model's lines are made of.
IsWhitespace(c) == c \in {" ", "\t", "\r"}

RECURSIVE TrimStart(_)
TrimStart(s) ==
    IF Len(s) > 0 /\ IsWhitespace(CharAt(s, 1))
    THEN TrimStart(SubSeq(s, 2, Len(s)))
    ELSE s

RECURSIVE TrimEnd(_)
TrimEnd(s) ==
    IF Len(s) > 0 /\ IsWhitespace(CharAt(s, Len(s)))
    THEN TrimEnd(SubSeq(s, 1, Len(s) - 1))
    ELSE s

\* str::trim
trim(s) == TrimEnd(TrimStart(s))

\* str::starts_with
starts_with(s, prefix) ==
    Len(s) >= Len(prefix) /\ SubSeq(s, 1, Len(prefix)) = prefix

\* The length of the longest prefix of s free of whitespace.
RECURSIVE TokenLen(_)
TokenLen(s) ==
    IF Len(s) = 0 \/ IsWhitespace(CharAt(s, 1))
    THEN 0
    ELSE 1 + TokenLen(SubSeq(s, 2, Len(s)))

\* str::split_whitespace, collected: the maximal whitespace-free substrings.
RECURSIVE split_whitespace(_)
split_whitespace(s) ==
    LET t == TrimStart(s)
        n == TokenLen(t)
    IN  IF Len(t) = 0
        THEN << >>
        ELSE << SubSeq(t, 1, n) >> \o split_whitespace(SubSeq(t, n + 1, Len(t)))

\* A join that puts nothing between the strings.
RECURSIVE join_nothing(_)
join_nothing(ms) ==
    IF Len(ms) = 0 THEN "" ELSE ms[1] \o join_nothing(Tail(ms))

\* [String]::join(" ")
RECURSIVE join(_)
join(ms) ==
    IF Len(ms) = 0 THEN ""
    ELSE IF Len(ms) = 1 THEN ms[1]
    ELSE ms[1] \o " " \o join(Tail(ms))

(***************************************************************************)
(* Numbers.  str::parse::<u32 | i32 | u64>() accepts an optional sign and  *)
(* decimal digits and fails on overflow.  A parsed value is kept as its    *)
(* canonical decimal numeral (no sign unless negative, no leading zero),   *)
(* so that 64-bit values need no arithmetic.  Option<T> is << >> for None  *)
(* and << v >> for Some(v).                                                *)
(***************************************************************************)
None == << >>
Some(v) == << v >>

Digits == {"0", "1", "2", "3", "4", "5", "6", "7", "8", "9"}

DigitVal(c) ==
    CASE c = "0" -> 0 [] c = "1" -> 1 [] c = "2" -> 2 [] c = "3" -> 3
      [] c = "4" -> 4 [] c = "5" -> 5 [] c = "6" -> 6 [] c = "7" -> 7
      [] c = "8" -> 8 [] c = "9" -> 9

AllDigits(s) == \A i \in 1..Len(s) : CharAt(s, i) \in Digits

RECURSIVE StripZeros(_)
StripZeros(s) ==
    IF Len(s) > 1 /\ CharAt(s, 1) = "0"
    THEN StripZeros(SubSeq(s, 2, Len(s)))
    ELSE s

\* a <= b for canonical unsigned numerals.
RECURSIVE NumeralLeq(_, _)
NumeralLeq(a, b) ==
    IF Len(a) # Len(b) THEN Len(a) < Len(b)
    ELSE IF Len(a) = 0 THEN TRUE
    ELSE IF CharAt(a, 1) # CharAt(b, 1)
         THEN DigitVal(CharAt(a, 1)) < DigitVal(CharAt(b, 1))
         ELSE NumeralLeq(SubSeq(a, 2, Len(a)), SubSeq(b, 2, Len(b)))

U32Max == "4294967295"
U64Max == "18446744073709551615"
I32Max == "2147483647"
I32MinMagnitude == "2147483648"

\* str::parse for an unsigned type whose largest value is max.
ParseUnsigned(tok, max) ==
    LET body == IF Len(tok) > 1 /\ CharAt(tok, 1) = "+"
                THEN SubSeq(tok, 2, Len(tok)) ELSE tok
        num  == StripZeros(body)
    IN  IF Len(body) = 0 \/ ~AllDigits(body) THEN None
        ELSE IF NumeralLeq(num, max) THEN Some(num) ELSE None

\* A parse of the score that takes no sign.
ParseI32Unsigned(tok) == ParseUnsigned(tok, I32Max)

\* str::parse::<i32>
ParseI32(tok) ==
    LET signed == Len(tok) > 1 /\ CharAt(tok, 1) \in {"+", "-"}
        neg    == signed /\ CharAt(tok, 1) = "-"
        body   == IF signed THEN SubSeq(tok, 2, Len(tok)) ELSE tok
        num    == StripZeros(body)
    IN  IF Len(body) = 0 \/ ~AllDigits(body) THEN None
        ELSE IF neg
             THEN IF NumeralLeq(num, I32MinMagnitude)
                  THEN Some(IF num = "0" THEN "0" ELSE "-" \o num)
                  ELSE None
             ELSE IF NumeralLeq(num, I32Max) THEN Some(num) ELSE None

(***************************************************************************)
(* usi/commands.rs: the command encoder                                    *)
(***************************************************************************)
build_usi_command == "usi"
build_isready_command == "isready"

\* A stop line that ends the engine instead.
build_stop_command_quit == "quit"

build_stop_command == "stop"

build_quit_command == "quit"
build_usinewgame_command == "usinewgame"

\* A position line that carries the moves separator also without moves.
build_position_command_moves(sfen, moves) ==
    "position sfen " \o sfen \o " moves " \o join(moves)

build_position_command(sfen, moves) ==
    IF Len(moves) = 0
    THEN "position sfen " \o sfen
    ELSE "position sfen " \o sfen \o " moves " \o join(moves)

\* format!("{}", n) for an unsigned integer: its decimal numeral.
DigitChar(d) == SubSeq("0123456789", d + 1, d + 1)

RECURSIVE ToDecimal(_)
ToDecimal(n) ==
    IF n < 10 THEN DigitChar(n) ELSE ToDecimal(n \div 10) \o DigitChar(n % 10)

build_go_byoyomi_command(time_ms) == "go byoyomi " \o ToDecimal(time_ms)

(***************************************************************************)
(* usi/parser.rs: the response parser                                      *)
(***************************************************************************)
ThinkingInfo_new ==
    [depth |-> None, score_cp |-> None, nodes |-> None, nps |-> None,
     time |-> None, pv |-> << >>]

UsiOk == [tag |-> "UsiOk"]
ReadyOk == [tag |-> "ReadyOk"]
BestMove(m, p) == [tag |-> "BestMove", best_move |-> m, ponder |-> p]
Info(i) == [tag |-> "Info", info |-> i]
Unknown(s) == [tag |-> "Unknown", raw |-> s]

\* A parse_bestmove that takes any fourth token for the ponder move.
parse_bestmove_any_ponder(line) ==
    LET parts == split_whitespace(line)
    IN  IF Len(parts) < 2 THEN Unknown(line)
        ELSE BestMove(parts[2], IF Len(parts) >= 4 THEN Some(parts[4]) ELSE None)

\* A parse_bestmove that takes the token at index 0 for the move.
parse_bestmove_first(line) ==
    LET parts == split_whitespace(line)
    IN  IF Len(parts) < 2 THEN Unknown(line)
        ELSE BestMove(parts[1],
                      IF Len(parts) >= 4 /\ parts[3] = "ponder"
                      THEN Some(parts[4]) ELSE None)

parse_bestmove(line) ==
    LET parts == split_whitespace(line)
    IN  IF Len(parts) < 2 THEN Unknown(line)
        ELSE BestMove(parts[2],
                      IF Len(parts) >= 4 /\ parts[3] = "ponder"
                      THEN Some(parts[4]) ELSE None)

\* One round of the while loop of parse_info at cursor i (1-based: the Rust
\* index plus one): the cursor and the info after it, and whether it broke
\* out of the loop.
InfoStep(parts, i, info) ==
    LET go(n, f) == [i |-> i + n, info |-> f, brk |-> FALSE]
    IN  CASE parts[i] = "depth" ->
               IF i + 1 <= Len(parts)
               THEN go(2, [info EXCEPT !.depth = ParseUnsigned(parts[i + 1], U32Max)])
               ELSE go(1, info)
          [] parts[i] = "score" ->
               IF i + 2 <= Len(parts) /\ parts[i + 1] = "cp"
               THEN go(3, [info EXCEPT !.score_cp = ParseI32(parts[i + 2])])
               ELSE go(1, info)
          [] parts[i] = "nodes" ->
               IF i + 1 <= Len(parts)
               THEN go(2, [info EXCEPT !.nodes = ParseUnsigned(parts[i + 1], U64Max)])
               ELSE go(1, info)
          [] parts[i] = "nps" ->
               IF i + 1 <= Len(parts)
               THEN go(2, [info EXCEPT !.nps = ParseUnsigned(parts[i + 1], U64Max)])
               ELSE go(1, info)
          [] parts[i] = "time" ->
               IF i + 1 <= Len(parts)
               THEN go(2, [info EXCEPT !.time = ParseUnsigned(parts[i + 1], U32Max)])
               ELSE go(1, info)
          [] parts[i] = "pv" ->
               [i |-> i, info |-> [info EXCEPT !.pv = SubSeq(parts, i + 1, Len(parts))],
                brk |-> TRUE]
          [] OTHER -> go(1, info)

\* The while loop of parse_info from cursor i.
RECURSIVE InfoScan(_, _, _)
InfoScan(parts, i, info) ==
    IF i > Len(parts) THEN info
    ELSE IF InfoStep(parts, i, info).brk THEN InfoStep(parts, i, info).info
    ELSE InfoScan(parts, InfoStep(parts, i, info).i, InfoStep(parts, i, info).info)

parse_info(line) ==
    Info(InfoScan(split_whitespace(line), 2, ThinkingInfo_new))

\* A parse_usi_line that compares and splits the line as it came.
parse_usi_line_untrimmed(line) ==
    IF Len(line) = 0 THEN Unknown("")
    ELSE IF line = "usiok" THEN UsiOk
    ELSE IF line = "readyok" THEN ReadyOk
    ELSE IF starts_with(line, "bestmove") THEN parse_bestmove(line)
    ELSE IF starts_with(line, "info") THEN parse_info(line)
    ELSE Unknown(line)

parse_usi_line(line) ==
    LET trimmed == trim(line)
    IN  IF Len(trimmed) = 0 THEN Unknown("")
        ELSE IF trimmed = "usiok" THEN UsiOk
        ELSE IF trimmed = "readyok" THEN ReadyOk
        ELSE IF starts_with(trimmed, "bestmove") THEN parse_bestmove(trimmed)
        ELSE IF starts_with(trimmed, "info") THEN parse_info(trimmed)
        ELSE Unknown(trimmed)

(***************************************************************************)
(* usi/engine.rs: UsiEngine                                                *)
(***************************************************************************)

\* Bounds of the model.
MaxProcs == 2          \* processes one session object may spawn
MaxPipe == 1           \* lines written and not yet read by the reader thread, per engine
MaxLines == 3          \* lines the engines write, all together
MaxShortPolls == 1     \* polls of a wait that sleep exactly the poll interval
Overshoot == 2500      \* ms by which a longer sleep overshoots the interval

\* Constants of the program.
HandshakeTimeoutMs == 5000
ReadinessTimeoutMs == 5000
SearchBufferMs == 5000
PollMs == 10

ProcIds == 1..MaxProcs

\* What a started engine may write: one line of each response variant, a
\* line with surrounding whitespace, and a line that is not valid UTF-8
\* (BufRead::lines yields Err for it).
InvalidUtf8 == "\\xff"
EngineLines == {"usiok", "readyok", "info depth 1", "bestmove 2g2f", InvalidUtf8}

\* What the engine writes in the scenarios of one call.
SearchLines == {"info depth 1", "bestmove 2g2f", "usiok"}
InitLines == {"usiok", "readyok", "info depth 1"}
LifeLines == {"usiok", "readyok", "bestmove 2g2f"}
LiveLines == {"usiok", "readyok", "id name engine"}

Sfens == {"9/9/9 b - 1"}
ThinkTimes == {1000}
\* timeout_ms arguments of a direct read_response_line call.
RecvTimeouts == {0, 5000}

Ok(v) == [ok |-> TRUE, val |-> v]
Err(e) == [ok |-> FALSE, val |-> e]
ErrNotStarted == "Engine not started"
ErrWrite == "Failed to write to engine"
ErrTimeout == "Timeout waiting for engine response"
ErrSpawn == "Failed to start engine process"

VARIABLES
    \* UsiEngine
    child,            \* Option<Child>: 0 for None, else the process
    stdin,            \* Option<ChildStdin>: 0 for None, else the process
    response_buffer,  \* the Vec<String> behind the Arc<Mutex<..>>
    mutex,            \* who holds the buffer's lock: "free", "caller", "reader"
    \* The engine processes and their reader threads
    pstate,           \* "unspawned", "running", "exited" (dead, not reaped), "reaped"
    pipe,             \* lines written to stdout and not yet read
    rpc,              \* reader thread: "none", "read", "lock", "push", "done"
    rline,            \* the line a reader holds between read and push
    \* The caller's thread
    pc,               \* where the caller is
    call,             \* the call in progress (or the last one that returned)
    wait,             \* the response variant the receive loop awaits
    timeout_ms,       \* of the read_response_line in progress
    elapsed,          \* start.elapsed().as_millis() of that call
    result,           \* what the last call returned
    \* History (observes the program, never read by it)
    hist,             \* whether history is recorded and the bounds apply
    written,          \* per process: the lines it wrote
    received,         \* the lines read_response_line returned, in order
    oplog,            \* the sends and receives of the call in progress
    sinceReq,         \* ms since the go line of the search in progress
    ready,            \* the last init succeeded on the process still owned
    \* The functions applied on their own, and the command shell
    arg,              \* the input of the function or command applied
    ret,              \* None, or Some(what it returned)
    engine,           \* EngineState::engine: None, or Some(the MockEngine)
    everReady,        \* an init_engine succeeded and no shutdown_engine since
    answers,          \* per board: what get_ai_move returned on a ready engine
    \* History of the search in progress
    goMark            \* how many lines the engines had written when go was sent

engineVars == <<child, stdin, response_buffer, mutex>>
procVars == <<pstate, pipe, rpc, rline>>
callerVars == <<pc, call, wait, timeout_ms, elapsed, result>>
histVars == <<hist, written, received, oplog, sinceReq, ready>>
fnVars == <<arg, ret, engine, everReady, answers>>
auxVars == <<fnVars, goMark>>
vars == <<engineVars, procVars, callerVars, histVars, auxVars>>

\* Record history only in the bounded runs.
Rec(old, new) == IF hist THEN new ELSE old

\* Sum of the lengths of the sequences w[p].
RECURSIVE TotalLen(_, _)
TotalLen(w, n) == IF n = 0 THEN 0 ELSE Len(w[n]) + TotalLen(w, n - 1)

NewCall(o, s, t, d) == [op |-> o, sfen |-> s, time_ms |-> t, from_drop |-> d]

\* No function or command is applied: the scenarios of the engine session.
AuxIdle ==
    arg = "" /\ ret = None /\ engine = None /\ everReady = FALSE /\ answers = << >>

\* A session right after UsiEngine::new.
SessionInit(h) ==
    /\ child = 0 /\ stdin = 0 /\ response_buffer = << >> /\ mutex = "free"
    /\ pstate = [p \in ProcIds |-> "unspawned"]
    /\ pipe = [p \in ProcIds |-> << >>]
    /\ rpc = [p \in ProcIds |-> "none"]
    /\ rline = [p \in ProcIds |-> ""]
    /\ pc = "idle" /\ call = NewCall("new", "", 0, FALSE) /\ wait = "none"
    /\ timeout_ms = 0 /\ elapsed = 0 /\ result = Ok("")
    /\ hist = h
    /\ written = [p \in ProcIds |-> << >>]
    /\ received = << >> /\ oplog = << >>
    /\ sinceReq = 0 /\ ready = FALSE
    /\ goMark = 0

InitWith(h) == SessionInit(h) /\ AuxIdle

Init == InitWith(TRUE)

\* UsiEngine::is_running
is_running == child # 0

\* What send_command returns in the current state: the write fails when the
\* process behind stdin no longer reads its input.
send_command ==
    IF stdin = 0 THEN Err(ErrNotStarted)
    ELSE IF pstate[stdin] # "running" THEN Err(ErrWrite)
    ELSE Ok("")

\* A send_command whose line reaches the engine also when it fails.
SentAlways(log, line, r) ==
    Rec(log, Append(log, [ev |-> "send", line |-> line]))

\* The log after send_command(line) returned r: the line reached the engine
\* only if the write succeeded.
Sent(log, line, r) ==
    IF r.ok THEN Rec(log, Append(log, [ev |-> "send", line |-> line])) ELSE log

\* The caller may make a call.
CanCall == pc = "idle"

\* A call returns r; a quit made by Drop ends with the session dropped.
ReturnTo(r, from_drop) ==
    /\ pc' = IF from_drop THEN "dropped" ELSE "idle"
    /\ result' = r
    /\ wait' = "none" /\ timeout_ms' = 0 /\ elapsed' = 0

\* The call in progress returns r.
Return(r) == ReturnTo(r, call.from_drop)

\* read_response_line(t) is entered, in a loop that awaits variant w.
StartRead(t, w) ==
    /\ pc' = "rrl_lock" /\ wait' = w /\ timeout_ms' = t /\ elapsed' = 0
    /\ UNCHANGED result

\* The child and stdin fields after a successful start of process p.
StartFields(p) == <<p, p>>

\* UsiEngine::start.  The spawn succeeds or fails as the environment has it.
\* A process the session owned before is neither killed nor waited for: its
\* Child is dropped, and its reader thread keeps the buffer.
CallStart(spawned) ==
    /\ CanCall
    /\ call' = NewCall("start", "", 0, FALSE)
    /\ sinceReq' = 0
    /\ oplog' = Rec(oplog, << >>)
    /\ IF spawned
       THEN /\ \E p \in ProcIds :
                 /\ pstate[p] = "unspawned"
                 /\ \A q \in ProcIds : q < p => pstate[q] # "unspawned"
                 /\ pstate' = [pstate EXCEPT ![p] = "running"]
                 /\ rpc' = [rpc EXCEPT ![p] = "read"]
                 /\ child' = StartFields(p)[1]
                 /\ stdin' = StartFields(p)[2]
            /\ ready' = FALSE
            /\ ReturnTo(Ok(""), FALSE)
       ELSE /\ ReturnTo(Err(ErrSpawn), FALSE)
            /\ UNCHANGED <<pstate, rpc, child, stdin, ready>>
    /\ UNCHANGED <<response_buffer, mutex, pipe, rline, hist, written, received>>
    /\ UNCHANGED auxVars

\* UsiEngine::stop, new_game: one send_command.
CallSend(o, line) ==
    /\ CanCall
    /\ call' = NewCall(o, "", 0, FALSE)
    /\ sinceReq' = 0
    /\ oplog' = Sent(<< >>, line, send_command)
    /\ ReturnTo(send_command, FALSE)
    /\ UNCHANGED <<engineVars, procVars, hist, written, received, ready>>
    /\ UNCHANGED auxVars

CallStop == CallSend("stop", build_stop_command)

CallNewGame == CallSend("new_game", build_usinewgame_command)

\* UsiEngine::init, up to the first wait.
CallInit ==
    /\ CanCall
    /\ call' = NewCall("init", "", 0, FALSE)
    /\ sinceReq' = 0
    /\ oplog' = Sent(<< >>, build_usi_command, send_command)
    /\ ready' = FALSE
    /\ IF send_command.ok
       THEN StartRead(HandshakeTimeoutMs, "UsiOk")
       ELSE ReturnTo(send_command, FALSE)
    /\ UNCHANGED <<engineVars, procVars, hist, written, received>>
    /\ UNCHANGED auxVars

\* UsiEngine::init, after the usiok wait: send "isready" and wait again.
InitSendIsReady ==
    /\ pc = "init_isready"
    /\ oplog' = Sent(oplog, build_isready_command, send_command)
    /\ IF send_command.ok
       THEN StartRead(ReadinessTimeoutMs, "ReadyOk")
       ELSE Return(send_command)
    /\ UNCHANGED <<engineVars, procVars, call, hist, written, received, sinceReq, ready>>
    /\ UNCHANGED auxVars

\* UsiEngine::get_best_move, the position line.
CallGetBestMove(sfen, time_ms) ==
    /\ CanCall
    /\ call' = NewCall("get_best_move", sfen, time_ms, FALSE)
    /\ sinceReq' = 0
    /\ oplog' = Sent(<< >>, build_position_command(sfen, << >>), send_command)
    /\ IF send_command.ok
       THEN /\ pc' = "gbm_go"
            /\ UNCHANGED <<wait, timeout_ms, elapsed, result>>
       ELSE ReturnTo(send_command, FALSE)
    /\ UNCHANGED <<engineVars, procVars, hist, written, received, ready>>
    /\ UNCHANGED auxVars

\* The budget of each wait of get_best_move.
SearchTimeout(time_ms) == time_ms + SearchBufferMs

\* UsiEngine::get_best_move, the go line and the start of the wait.  With
\* mark the history notes how many lines the engines have written so far.
GbmSendGo(mark) ==
    /\ pc = "gbm_go"
    /\ oplog' = Sent(oplog, build_go_byoyomi_command(call.time_ms), send_command)
    /\ IF send_command.ok
       THEN StartRead(SearchTimeout(call.time_ms), "BestMove")
       ELSE Return(send_command)
    /\ sinceReq' = 0
    /\ goMark' = IF mark THEN Rec(goMark, TotalLen(written, MaxProcs)) ELSE goMark
    /\ UNCHANGED <<engineVars, procVars, call, hist, written, received, ready>>
    /\ UNCHANGED fnVars

\* UsiEngine::quit, the quit line; Drop calls quit and drops its result.
CallQuit(from_drop) ==
    /\ CanCall
    /\ call' = NewCall("quit", "", 0, from_drop)
    /\ sinceReq' = 0
    /\ oplog' = Sent(<< >>, build_quit_command, send_command)
    /\ IF send_command.ok
       THEN /\ pc' = "quit_sleep"
            /\ UNCHANGED <<wait, timeout_ms, elapsed, result>>
       ELSE ReturnTo(send_command, from_drop)
    /\ ready' = FALSE
    /\ UNCHANGED <<engineVars, procVars, hist, written, received>>
    /\ UNCHANGED auxVars

\* A quit that takes the child and keeps the input handle.
QuitFieldsKeepStdin == <<0, stdin>>

\* The child and stdin fields at the end of quit.
QuitFields == <<0, 0>>

\* UsiEngine::quit after the 100 ms sleep: kill, wait, clear both fields.
QuitKill ==
    /\ pc = "quit_sleep"
    /\ pstate' = IF child # 0 THEN [pstate EXCEPT ![child] = "reaped"] ELSE pstate
    /\ child' = QuitFields[1]
    /\ stdin' = QuitFields[2]
    /\ Return(Ok(""))
    /\ UNCHANGED <<response_buffer, mutex, pipe, rpc, rline, call, histVars>>
    /\ UNCHANGED auxVars

\* A direct call of read_response_line(t).
CallRecv(t) ==
    /\ CanCall
    /\ call' = NewCall("read_response_line", "", 0, FALSE)
    /\ sinceReq' = 0
    /\ oplog' = Rec(oplog, << >>)
    /\ StartRead(t, "line")
    /\ UNCHANGED <<engineVars, procVars, hist, written, received, ready>>
    /\ UNCHANGED auxVars

\* A guard that its holder keeps when it leaves the block.
GuardKept(holder) == holder

\* The lock once the MutexGuard of holder goes out of scope.
GuardDropped(holder) == "free"

\* read_response_line: lock the buffer.
RrlLock ==
    /\ pc = "rrl_lock" /\ mutex = "free"
    /\ mutex' = "caller" /\ pc' = "rrl_check"
    /\ UNCHANGED <<child, stdin, response_buffer, procVars, call, wait,
                   timeout_ms, elapsed, result, histVars>>
    /\ UNCHANGED auxVars

\* What read_response_line takes from a non-empty buffer: <<line, rest>>.
TakeLine(buffer) == <<Head(buffer), Tail(buffer)>>

\* A loop that ends with either acknowledgement of the handshake.
AwaitedAck(w, r) == w = "line" \/ r.tag \in {"UsiOk", "ReadyOk"}

\* Whether the loop awaiting variant w ends with the line parsed as r.
Awaited(w, r) == w = "line" \/ r.tag = w

\* read_response_line under the lock: a non-empty buffer gives its oldest
\* line, and the loop of the caller (init, get_best_move) matches it: the
\* awaited variant ends the loop, any other line starts the next
\* read_response_line.  An empty buffer releases the lock.
RrlCheck ==
    /\ pc = "rrl_check"
    /\ mutex' = GuardDropped("caller")
    /\ IF response_buffer # << >>
       THEN LET line == TakeLine(response_buffer)[1]
                r == parse_usi_line(line)
            IN  /\ response_buffer' = TakeLine(response_buffer)[2]
                /\ received' = Rec(received, Append(received, line))
                /\ oplog' = Rec(oplog, Append(oplog, [ev |-> "recv", line |-> line]))
                /\ IF ~Awaited(wait, r)
                   THEN /\ StartRead(timeout_ms, wait)
                        /\ UNCHANGED ready
                   ELSE CASE wait = "line" ->
                               Return(Ok(line)) /\ UNCHANGED ready
                          [] wait = "UsiOk" ->
                               /\ pc' = "init_isready"
                               /\ wait' = "none" /\ timeout_ms' = 0 /\ elapsed' = 0
                               /\ UNCHANGED <<result, ready>>
                          [] wait = "ReadyOk" ->
                               Return(Ok("")) /\ ready' = TRUE
                          [] wait = "BestMove" ->
                               Return(Ok(r.best_move)) /\ UNCHANGED ready
       ELSE /\ pc' = "rrl_timeout"
            /\ UNCHANGED <<response_buffer, received, oplog, wait, timeout_ms,
                           elapsed, result, ready>>
    /\ UNCHANGED <<child, stdin, procVars, call, hist, written, sinceReq>>
    /\ UNCHANGED auxVars

\* A timeout test that never fires.
TimedOutNever(e, t) == e < 0

\* The timeout test of read_response_line.
TimedOut(e, t) == e > t

\* read_response_line after an empty buffer: time out or go to sleep.
RrlTimeout ==
    /\ pc = "rrl_timeout"
    /\ IF TimedOut(elapsed, timeout_ms)
       THEN Return(Err(ErrTimeout))
       ELSE /\ pc' = "rrl_sleep"
            /\ UNCHANGED <<wait, timeout_ms, elapsed, result>>
    /\ UNCHANGED <<engineVars, procVars, call, histVars>>
    /\ UNCHANGED auxVars

\* How long thread::sleep(10 ms) may take: the interval, or longer.
SleepDurations ==
    IF elapsed < MaxShortPolls * PollMs
    THEN {PollMs, PollMs + Overshoot}
    ELSE {PollMs + Overshoot}

\* read_response_line: sleep, then go round the loop.  The code only compares
\* the elapsed time with the timeout, so a time past it is kept as timeout + 1.
RrlSleep(d) ==
    /\ pc = "rrl_sleep"
    /\ elapsed' = IF elapsed + d > timeout_ms THEN timeout_ms + 1 ELSE elapsed + d
    /\ sinceReq' = IF call.op # "get_best_move" THEN sinceReq
                   ELSE IF sinceReq + d > SearchTimeout(call.time_ms)
                        THEN SearchTimeout(call.time_ms) + 1
                        ELSE sinceReq + d
    /\ pc' = "rrl_lock"
    /\ UNCHANGED <<engineVars, procVars, call, wait, timeout_ms, result, hist,
                   written, received, oplog, ready>>
    /\ UNCHANGED auxVars

\* An engine writes a line to its standard output.
EngineWrite(p, line) ==
    /\ pstate[p] = "running"
    /\ Len(pipe[p]) < MaxPipe
    /\ hist => TotalLen(written, MaxProcs) < MaxLines
    /\ pipe' = [pipe EXCEPT ![p] = Append(@, line)]
    /\ written' = Rec(written, [written EXCEPT ![p] = Append(@, line)])
    /\ UNCHANGED <<engineVars, pstate, rpc, rline, callerVars, hist, received, oplog, sinceReq, ready>>
    /\ UNCHANGED auxVars

\* An engine exits by itself (it crashes, or obeys quit): its output ends
\* after what it wrote, and writes to its input fail.
EngineExit(p) ==
    /\ pstate[p] = "running"
    /\ pstate' = [pstate EXCEPT ![p] = "exited"]
    /\ UNCHANGED <<engineVars, pipe, rpc, rline, callerVars, histVars>>
    /\ UNCHANGED auxVars

\* The reader after reader.lines() gave Err: the for loop goes on.
AfterReadError == "read"

\* The reader thread: the next item of reader.lines().  An Ok line is kept
\* for the push, an Err is skipped, the end of the output ends the thread.
ReaderRead(p) ==
    /\ rpc[p] = "read"
    /\ hist \/ Len(response_buffer) < MaxLines
    /\ IF pipe[p] # << >>
       THEN /\ pipe' = [pipe EXCEPT ![p] = Tail(@)]
            /\ IF Head(pipe[p]) = InvalidUtf8
               THEN /\ rpc' = [rpc EXCEPT ![p] = AfterReadError]
                    /\ UNCHANGED rline
               ELSE /\ rpc' = [rpc EXCEPT ![p] = "lock"]
                    /\ rline' = [rline EXCEPT ![p] = Head(pipe[p])]
       ELSE /\ pstate[p] \in {"exited", "reaped"}
            /\ rpc' = [rpc EXCEPT ![p] = "done"]
            /\ UNCHANGED <<pipe, rline>>
    /\ UNCHANGED <<engineVars, pstate, callerVars, histVars>>
    /\ UNCHANGED auxVars

\* The reader thread: buffer.lock().
ReaderLock(p) ==
    /\ rpc[p] = "lock" /\ mutex = "free"
    /\ mutex' = "reader"
    /\ rpc' = [rpc EXCEPT ![p] = "push"]
    /\ UNCHANGED <<child, stdin, response_buffer, pstate, pipe, rline,
                   callerVars, histVars>>
    /\ UNCHANGED auxVars

\* A reader that puts the line at the front of the buffer.
PushFront(buffer, line) == <<line>> \o buffer

\* The buffer after buf.push(line).
PushLine(buffer, line) == Append(buffer, line)

\* The reader thread: buf.push(line), and the guard is dropped.
ReaderPush(p) ==
    /\ rpc[p] = "push"
    /\ response_buffer' = PushLine(response_buffer, rline[p])
    /\ mutex' = GuardDropped("reader")
    /\ rpc' = [rpc EXCEPT ![p] = "read"]
    /\ rline' = [rline EXCEPT ![p] = ""]
    /\ UNCHANGED <<child, stdin, pstate, pipe, callerVars, hist, written, received, oplog, sinceReq, ready>>
    /\ UNCHANGED auxVars

\* The caller starts the engine once: the scenarios of one started session.
StartOnce == (\A p \in ProcIds : pstate[p] = "unspawned") /\ CallStart(TRUE)

\* The steps of read_response_line, with polls that sleep the interval or longer.
Receive ==
    \/ RrlLock
    \/ RrlCheck
    \/ RrlTimeout
    \/ \E d \in SleepDurations : RrlSleep(d)

\* The steps of the reader threads.
Reader ==
    \/ \E p \in ProcIds : ReaderRead(p)
    \/ \E p \in ProcIds : ReaderLock(p)
    \/ \E p \in ProcIds : ReaderPush(p)

\* One started session whose caller calls read_response_line, any number of
\* times, while the engine writes any of EngineLines and may exit.
RecvNext ==
    \/ StartOnce
    \/ \E t \in RecvTimeouts : CallRecv(t)
    \/ Receive
    \/ \E p \in ProcIds, line \in EngineLines : EngineWrite(p, line)
    \/ \E p \in ProcIds : EngineExit(p)
    \/ Reader

RecvSpec == Init /\ [][RecvNext]_vars

\* One started session whose caller calls get_best_move and stop.
SearchNext ==
    \/ StartOnce
    \/ \E sfen \in Sfens, time_ms \in ThinkTimes : CallGetBestMove(sfen, time_ms)
    \/ GbmSendGo(FALSE)
    \/ CallStop
    \/ Receive
    \/ \E p \in ProcIds, line \in SearchLines : EngineWrite(p, line)
    \/ \E p \in ProcIds : EngineExit(p)
    \/ Reader

SearchSpec == Init /\ [][SearchNext]_vars

\* One started session whose caller calls init.
InitNext ==
    \/ StartOnce
    \/ CallInit
    \/ InitSendIsReady
    \/ Receive
    \/ \E p \in ProcIds, line \in InitLines : EngineWrite(p, line)
    \/ \E p \in ProcIds : EngineExit(p)
    \/ Reader

InitSpec == Init /\ [][InitNext]_vars

\* One started session whose caller calls init, get_best_move, stop and quit.
SessionNext ==
    \/ StartOnce
    \/ CallInit
    \/ InitSendIsReady
    \/ \E sfen \in Sfens, time_ms \in ThinkTimes : CallGetBestMove(sfen, time_ms)
    \/ GbmSendGo(FALSE)
    \/ CallStop
    \/ CallQuit(FALSE)
    \/ QuitKill
    \/ Receive
    \/ \E p \in ProcIds, line \in LifeLines : EngineWrite(p, line)
    \/ \E p \in ProcIds : EngineExit(p)
    \/ Reader

SessionSpec == Init /\ [][SessionNext]_vars

\* The life of a session object: every public call in any order, starts that
\* fail, several processes, engines that exit by themselves and write nothing
\* (so the waits of init and get_best_move end by their timeouts).
LifeNext ==
    \/ \E spawned \in BOOLEAN : CallStart(spawned)
    \/ CallStop
    \/ CallNewGame
    \/ CallInit
    \/ \E sfen \in Sfens, time_ms \in ThinkTimes : CallGetBestMove(sfen, time_ms)
    \/ GbmSendGo(FALSE)
    \/ \E from_drop \in BOOLEAN : CallQuit(from_drop)
    \/ QuitKill
    \/ RrlLock
    \/ RrlCheck
    \/ RrlTimeout
    \/ RrlSleep(PollMs + Overshoot)
    \/ \E p \in ProcIds : EngineExit(p)
    \/ \E p \in ProcIds : ReaderRead(p)

LifeSpec == Init /\ [][LifeNext]_vars

\* The steps of an engine that writes lines without end: no history is kept.
EngineWrites == \E p \in ProcIds, line \in LiveLines : EngineWrite(p, line)

\* The steps of the caller inside a call.
CallerSteps == InitSendIsReady \/ Receive

\* One started session whose caller calls init while the engine writes any
\* number of lines.  The caller's thread and the reader threads are scheduled
\* by the operating system: each takes its next step if it stays able to.
LiveNext ==
    \/ StartOnce
    \/ CallInit
    \/ CallerSteps
    \/ EngineWrites
    \/ \E p \in ProcIds : EngineExit(p)
    \/ Reader

LiveSpec ==
    /\ InitWith(FALSE) /\ [][LiveNext]_vars
    /\ WF_vars(CallerSteps)
    /\ WF_vars(Reader)

\* ---------------------------------------------------------------------
\* Properties of the life of a session (LifeSpec)

\* quit, called directly or by Drop, has returned.
QuitReturned == call.op = "quit" /\ pc \in {"idle", "dropped"}

\* C1: quit is valid from every state: on a session that holds no process
\* (never started, or already terminated by an earlier quit) it returns
\* success and leaves both handles absent.
C1_QuitIdempotent ==
    (QuitReturned /\ child = 0 /\ stdin = 0) => result.ok

\* C2: the failures of teardown are swallowed: a quit of a started session,
\* direct or by Drop, clears both handles and reports success also when the
\* engine is dead and the quit line cannot be written.
C2_TeardownSwallowsFailures ==
    (QuitReturned /\ result # Err(ErrNotStarted)) =>
        /\ child = 0 /\ stdin = 0
        /\ result.ok

\* C3: in every reachable state the input handle is present exactly when the
\* child handle is, is_running reports that presence, and a session nothing
\* was called on is not running.
C3_HandlesPaired ==
    /\ (stdin # 0) <=> (child # 0)
    /\ is_running <=> (stdin # 0)
    /\ call.op = "new" => ~is_running

\* C3: a quit whose write failed left a started session started, a start
\* that failed after it left both handles in place.
C3_Witness ==
    /\ call.op = "start" /\ pc = "idle" /\ ~result.ok
    /\ child # 0 /\ stdin = child /\ pstate[child] = "exited"

\* ---------------------------------------------------------------------
\* Properties of read_response_line (RecvSpec)

\* A line the reader thread gets as Ok(line).
IsValidLine(line) == line # InvalidUtf8

\* The lines of a byte stream that reader.lines() yields as Ok.
ValidLines(stream) == SelectSeq(stream, IsValidLine)

\* The line the reader thread of p holds between its read and its push.
Held(p) == IF rpc[p] \in {"lock", "push"} THEN <<rline[p]>> ELSE << >>

\* The lines of engine p in the order it wrote them, as far as they are
\* returned, buffered, held by the reader or still in the pipe.
Delivered(p) == received \o response_buffer \o Held(p) \o ValidLines(pipe[p])

\* C4: under every interleaving of the reader thread and the caller on one
\* started session, the lines returned so far are a prefix of the lines the
\* engine wrote, in the order written, and every line not yet returned is
\* still on its way in that order: none lost, duplicated or reordered.
C4_FifoChannel ==
    \A p \in ProcIds : pstate[p] # "unspawned" =>
        /\ Delivered(p) = ValidLines(written[p])
        /\ Len(received) <= Len(ValidLines(written[p]))
        /\ received = SubSeq(ValidLines(written[p]), 1, Len(received))

\* C4: two lines were returned while a third one waits in the buffer.
C4_Witness ==
    /\ Len(received) = 2 /\ Len(response_buffer) = 1
    /\ received[1] # received[2]
    /\ call.op = "read_response_line" /\ pc = "idle" /\ result.ok

\* C5: read_response_line with a timeout of zero on an empty buffer never
\* sleeps a poll interval: it fails at once.
C5_ZeroTimeoutNeverSleeps ==
    ~(call.op = "read_response_line" /\ timeout_ms = 0 /\ pc = "rrl_sleep")

\* ---------------------------------------------------------------------
\* Properties of get_best_move (SearchSpec)

IsRecv(e) == e.ev = "recv"

IsSend(e) == e.ev = "send"

\* The variant a line is classified as.
TagOf(line) == parse_usi_line(line).tag

\* get_best_move has returned a move.
GbmReturnedOk == call.op = "get_best_move" /\ pc = "idle" /\ result.ok

\* C6: get_best_move returns the move token of the first BestMove line among
\* the lines it takes, in the order the engine wrote them; the lines ahead
\* of it are taken and discarded without an error, the lines behind it stay
\* on their way to the buffer.
C6_FirstBestMove ==
    GbmReturnedOk =>
        LET stream == ValidLines(written[child])
            n == Len(received)
            k == n - Len(SelectSeq(oplog, IsRecv))
        IN  /\ k < n /\ n <= Len(stream)
            /\ received = SubSeq(stream, 1, n)
            /\ TagOf(stream[n]) = "BestMove"
            /\ result.val = split_whitespace(stream[n])[2]
            /\ \A i \in (k + 1)..(n - 1) : TagOf(stream[i]) # "BestMove"
            /\ response_buffer \o Held(child) \o ValidLines(pipe[child])
                   = SubSeq(stream, n + 1, Len(stream))

\* C6: a line was discarded ahead of "bestmove 2g2f", which gave "2g2f",
\* and the line behind it is in the buffer.
C6_Witness ==
    /\ GbmReturnedOk /\ result.val = "2g2f"
    /\ Len(SelectSeq(oplog, IsRecv)) = 2
    /\ TagOf(received[1]) = "Info"
    /\ Len(response_buffer) = 1

\* C8: get_best_move does not go on waiting once time_ms + 5000 ms have
\* passed since the request: at the first poll after that time that finds no
\* line it fails with the timeout, whatever other lines it took before.
C8_SearchDeadline ==
    ~(/\ call.op = "get_best_move" /\ pc = "rrl_sleep"
      /\ sinceReq > SearchTimeout(call.time_ms))

\* ---------------------------------------------------------------------
\* Properties of init (InitSpec, LiveSpec)

\* C7: in init the events come in this order: "usi" written, a usiok line
\* taken, "isready" written, a readyok line taken, success.  "isready" is
\* written only right after a usiok was taken, success is returned only
\* right after a readyok was taken after "isready", and every other line
\* taken in either wait is discarded: the only errors are those of the
\* writes and the timeout.
C7_HandshakeOrder ==
    call.op = "init" =>
        LET n == Len(oplog)
        IN  /\ n >= 1 => IsSend(oplog[1]) /\ oplog[1].line = "usi"
            /\ \A i \in 2..n : IsSend(oplog[i]) =>
                   /\ oplog[i].line = "isready"
                   /\ IsRecv(oplog[i - 1]) /\ TagOf(oplog[i - 1].line) = "UsiOk"
                   /\ \A j \in 2..(i - 2) :
                          IsRecv(oplog[j]) /\ TagOf(oplog[j].line) # "UsiOk"
            /\ pc = "init_isready" =>
                   n >= 2 /\ IsRecv(oplog[n]) /\ TagOf(oplog[n].line) = "UsiOk"
            /\ (pc = "idle" /\ result.ok) =>
                   \E i \in 3..(n - 1) :
                       /\ IsSend(oplog[i])
                       /\ IsRecv(oplog[n]) /\ TagOf(oplog[n].line) = "ReadyOk"
                       /\ \A j \in (i + 1)..(n - 1) :
                              IsRecv(oplog[j]) /\ TagOf(oplog[j].line) # "ReadyOk"
            /\ (pc = "idle" /\ ~result.ok) =>
                   result.val \in {ErrNotStarted, ErrWrite, ErrTimeout}

\* C7: init succeeded after it discarded a line in one of its waits.
C7_Witness ==
    /\ call.op = "init" /\ pc = "idle" /\ result.ok
    /\ Len(oplog) = 5
    /\ \E j \in 2..5 : IsRecv(oplog[j]) /\ TagOf(oplog[j].line) = "Info"

\* init is in progress.
InInit == call.op = "init" /\ pc # "idle"

\* C9 as stated: init never suspends for ever, it returns for every stream
\* of lines the engine may write.
C9_InitAlwaysReturns == InInit ~> ~InInit

\* C9: init returns once the engine goes silent: if from some time on the
\* engine writes no line, an init in progress returns.
C9_InitReturnsOnceSilent ==
    (<>[][~EngineWrites]_vars) => (InInit ~> ~InInit)

\* C9: init returned the timeout error while the engine, still running,
\* had nothing more on its way to the buffer.
C9_Witness ==
    /\ call.op = "init" /\ pc = "idle" /\ result = Err(ErrTimeout)
    /\ response_buffer = << >> /\ pstate[child] = "running" /\ pipe[child] = << >>

\* ---------------------------------------------------------------------
\* Properties of a session (SessionSpec)

\* C10: get_best_move is valid only from Ready: called on a session whose
\* handshake has not completed since its start, it writes no line to the
\* engine and fails.
C10_OnlyFromReady ==
    (call.op = "get_best_move" /\ ~ready) =>
        /\ SelectSeq(oplog, IsSend) = << >>
        /\ pc = "idle" => ~result.ok

\* ---------------------------------------------------------------------
\* Properties of send_command inside the calls (SessionSpec)

\* A step of the caller that calls send_command: the first step of init,
\* get_best_move, stop and quit, and the second write of init and of
\* get_best_move.
SendStep ==
    /\ pc \in {"idle", "init_isready", "gbm_go"}
    /\ call'.op # "start"
    /\ <<callerVars, oplog>>' # <<callerVars, oplog>>

\* The lines a log records as written.
SentLines(log) == SelectSeq(log, IsSend)

\* C11: a send_command that fails gives the not-started error when no
\* process is active and the write error otherwise, writes nothing, leaves
\* both handles and the line buffer as they were, and ends the call in
\* progress at once: nothing more is written and no line is taken.
C11_SendFailureEndsCall ==
    [][(SendStep /\ ~send_command.ok) =>
          /\ result' = IF stdin = 0 THEN Err(ErrNotStarted) ELSE Err(ErrWrite)
          /\ pc' = "idle"
          /\ UNCHANGED <<child, stdin, response_buffer, received>>
          /\ SentLines(oplog') = IF pc = "idle" THEN << >> ELSE SentLines(oplog)
      ]_vars

\* C11: the position write of get_best_move failed while a line was in the
\* buffer, and the write of "isready" failed after usiok was taken.
C11_Witness ==
    /\ pc = "idle" /\ result = Err(ErrWrite) /\ response_buffer # << >>
    /\ \/ call.op = "get_best_move" /\ oplog = << >>
       \/ call.op = "init" /\ Len(oplog) >= 2

(***************************************************************************)
(* usi/parser.rs and usi/commands.rs: the functions applied on their own   *)
(***************************************************************************)

MaxTokens == 3         \* tokens a line given to parse_usi_line is joined from

\* The sequences of at most n elements of A.
SeqsUpTo(A, n) == UNION {[1..k -> A] : k \in 0..n}

\* What the lines given to parse_usi_line are joined from: the empty token
\* and the tab make leading, trailing and repeated whitespace.
ClassifyTokens ==
    {"", "\t", "usiok", "readyok", "bestmove", "info", "bestmovex", "infox",
     "usiokx", "7g7f"}

ClassifyLines == {join(ts) : ts \in SeqsUpTo(ClassifyTokens, MaxTokens)}

\* The session stays as new while a function is applied on its own.
SessionUnchanged == UNCHANGED <<engineVars, procVars, callerVars, histVars, goMark>>

\* A function of the parser or the encoder is about to be applied to arg.
FnInit(args) ==
    /\ SessionInit(TRUE)
    /\ arg \in args /\ ret = None
    /\ engine = None /\ everReady = FALSE /\ answers = << >>

\* parse_usi_line(arg)
Classify ==
    /\ ret = None
    /\ ret' = Some(parse_usi_line(arg))
    /\ UNCHANGED <<arg, engine, everReady, answers>>
    /\ SessionUnchanged

ClassifySpec == FnInit(ClassifyLines) /\ [][Classify]_vars

\* t is s without its leading and trailing whitespace.
IsTrimOf(t, s) ==
    \E i \in 1..(Len(s) + 1), j \in 0..Len(s) :
        /\ t = SubSeq(s, i, j)
        /\ \A k \in 1..(i - 1) : IsWhitespace(CharAt(s, k))
        /\ \A k \in (j + 1)..Len(s) : IsWhitespace(CharAt(s, k))
        /\ i <= j => ~IsWhitespace(CharAt(s, i)) /\ ~IsWhitespace(CharAt(s, j))

\* C12: parse_usi_line is total and follows a fixed priority on the line
\* without its surrounding whitespace: empty gives Unknown(""), exactly
\* "usiok" gives UsiOk, exactly "readyok" gives ReadyOk, the prefix
\* "bestmove" gives what parse_bestmove gives, the prefix "info" gives what
\* parse_info gives, which is an Info, and anything else gives Unknown of
\* the trimmed line; every line gives exactly one variant.
C12_ClassifyTotal ==
    ret # None =>
        LET r == ret[1]
            t == trim(arg)
        IN  /\ IsTrimOf(t, arg)
            /\ r.tag \in {"UsiOk", "ReadyOk", "BestMove", "Info", "Unknown"}
            /\ r = IF t = "" THEN Unknown("")
                   ELSE IF t = "usiok" THEN UsiOk
                   ELSE IF t = "readyok" THEN ReadyOk
                   ELSE IF starts_with(t, "bestmove") THEN parse_bestmove(t)
                   ELSE IF starts_with(t, "info") THEN parse_info(t)
                   ELSE Unknown(t)
            /\ (t # "" /\ ~starts_with(t, "bestmove") /\ starts_with(t, "info"))
                   => r.tag = "Info"
            /\ r.tag = "UsiOk" <=> t = "usiok"
            /\ r.tag = "ReadyOk" <=> t = "readyok"

\* C12: a line with whitespace around "usiok" was classified as UsiOk.
C12_Witness == ret = Some(UsiOk) /\ arg # "usiok"

\* ---------------------------------------------------------------------
\* parse_info, one round of its loop at a time (InfoSpec)

\* What the token sequences after "info" are made of.
InfoTokens ==
    {"depth", "score", "cp", "nodes", "nps", "time", "pv",
     "5", "-7", "x", "4294967296", "7g7f"}

\* Keywords with well-formed values.
InfoGroups ==
    {<<"depth", "5">>, <<"score", "cp", "100">>, <<"nodes", "1000">>,
     <<"nps", "50000">>, <<"time", "20">>}

\* The sequences of distinct elements of A.
Orderings(A) ==
    {f \in SeqsUpTo(A, Cardinality(A)) :
        \A a, b \in DOMAIN f : a # b => f[a] # f[b]}

RECURSIVE Concat(_)
Concat(seqs) == IF Len(seqs) = 0 THEN << >> ELSE Head(seqs) \o Concat(Tail(seqs))

\* The well-formed groups in every order, with or without a pv after them.
WellFormedInfo ==
    {Concat(gs) \o tail :
        gs \in Orderings(InfoGroups), tail \in {<< >>, <<"pv", "7g7f", "3c3d">>}}

InfoInputs == SeqsUpTo(InfoTokens, MaxTokens) \cup WellFormedInfo

\* The line of the token sequence ts.
InfoLine(ts) == join(<<"info">> \o ts)

\* parse_info(line) up to its loop: the tokens, the cursor, the new info;
\* rounds counts the rounds of the loop that did not break out of it.
InfoEnter ==
    /\ ret = None
    /\ ret' = Some([parts |-> split_whitespace(InfoLine(arg)), i |-> 2,
                    info |-> ThinkingInfo_new, done |-> FALSE, rounds |-> 0])
    /\ UNCHANGED <<arg, engine, everReady, answers>>
    /\ SessionUnchanged

\* parse_info: the loop condition and one round of the loop.
InfoIterate ==
    /\ ret # None /\ ~ret[1].done
    /\ LET st == ret[1]
           n == InfoStep(st.parts, st.i, st.info)
       IN  ret' = IF st.i > Len(st.parts)
                  THEN Some([st EXCEPT !.done = TRUE])
                  ELSE Some([st EXCEPT !.i = n.i, !.info = n.info, !.done = n.brk,
                                       !.rounds = IF n.brk THEN @ ELSE @ + 1])
    /\ UNCHANGED <<arg, engine, everReady, answers>>
    /\ SessionUnchanged

InfoNext == InfoEnter \/ InfoIterate

InfoSpec == FnInit(InfoInputs) /\ [][InfoNext]_vars

\* The number a value token stands for, by type.
NumU32(tok) == IF tok \in {"5", "20"} THEN Some(tok) ELSE None
NumU64(tok) == IF tok \in {"5", "1000", "50000", "4294967296"} THEN Some(tok) ELSE None
NumI32(tok) == IF tok \in {"5", "-7", "100"} THEN Some(tok) ELSE None

\* Token kw is followed in ts by a token that stands for v.
Follows(ts, kw, v, Num(_)) ==
    \E k \in 1..(Len(ts) - 1) : ts[k] = kw /\ Num(ts[k + 1]) = v

\* What well-formed groups in any order give.
ExpectedInfo(ts) ==
    LET has(kw) == \E k \in 1..Len(ts) : ts[k] = kw
    IN  [depth |-> IF has("depth") THEN Some("5") ELSE None,
         score_cp |-> IF has("score") THEN Some("100") ELSE None,
         nodes |-> IF has("nodes") THEN Some("1000") ELSE None,
         nps |-> IF has("nps") THEN Some("50000") ELSE None,
         time |-> IF has("time") THEN Some("20") ELSE None,
         pv |-> IF has("pv") THEN <<"7g7f", "3c3d">> ELSE << >>]

\* parse_info has returned Info(ret[1].info) for the tokens arg, and the
\* fields are what the tokens say.
InfoFieldsRight ==
    LET ts == arg
        info == ret[1].info
    IN  /\ Info(info) = parse_info(InfoLine(ts))
        /\ ts \in WellFormedInfo => info = ExpectedInfo(ts)
        /\ info.depth # None => Follows(ts, "depth", info.depth, NumU32)
        /\ info.nodes # None => Follows(ts, "nodes", info.nodes, NumU64)
        /\ info.nps # None => Follows(ts, "nps", info.nps, NumU64)
        /\ info.time # None => Follows(ts, "time", info.time, NumU32)
        /\ info.score_cp # None =>
               \E k \in 1..(Len(ts) - 2) :
                   ts[k] = "score" /\ ts[k + 1] = "cp" /\ NumI32(ts[k + 2]) = info.score_cp
        /\ info.pv # << >> =>
               \E k \in 1..Len(ts) : ts[k] = "pv" /\ info.pv = SubSeq(ts, k + 1, Len(ts))
        /\ (Len(ts) >= 1 /\ ts[1] = "pv") => info.pv = Tail(ts)
        /\ (Len(ts) = 2 /\ ts[1] = "depth") => info.depth = NumU32(ts[2])
        /\ (Len(ts) = 2 /\ ts[1] = "nodes") => info.nodes = NumU64(ts[2])
        /\ (Len(ts) = 2 /\ ts[1] = "nps") => info.nps = NumU64(ts[2])
        /\ (Len(ts) = 2 /\ ts[1] = "time") => info.time = NumU32(ts[2])
        /\ (Len(ts) = 3 /\ ts[1] = "score" /\ ts[2] = "cp") => info.score_cp = NumI32(ts[3])
        /\ (Len(ts) = 1 /\ ts[1] # "pv") => info = ThinkingInfo_new

\* C13: every round of the scan of parse_info moves the cursor forward (it
\* is past as many tokens as rounds were made), so the scan ends on every
\* token sequence; at its end depth, score_cp (for the subtype cp only),
\* nodes, nps and time are what the token after their keyword stands for,
\* absent when it is no number of the field's type or is missing, pv is all
\* the tokens after "pv", and well-formed keywords before pv give the same
\* info in every order.
C13_InfoScan ==
    ret # None =>
        /\ ret[1].i >= 2 + ret[1].rounds
        /\ ret[1].i <= Len(ret[1].parts) + 1
        /\ ret[1].done => InfoFieldsRight

\* C13: the line of the example with its keywords in another order gave
\* depth 5, score_cp 100, nodes 1000, nps 50000, time 20, pv [7g7f, 3c3d].
C13_Witness ==
    /\ ret # None /\ ret[1].done
    /\ Len(arg) = 14 /\ arg[1] = "time"
    /\ ret[1].info = [depth |-> Some("5"), score_cp |-> Some("100"),
                      nodes |-> Some("1000"), nps |-> Some("50000"),
                      time |-> Some("20"), pv |-> <<"7g7f", "3c3d">>]

\* ---------------------------------------------------------------------
\* parse_bestmove (BestMoveSpec)

\* The first token of the lines given to parse_bestmove.
BestMoveHeads == {"bestmove", "bestmovex"}

\* What follows it: moves, the ponder keyword, and the empty token and the
\* tab for repeated and trailing whitespace.
BestMoveTokens == {"7g7f", "3c3d", "ponder", "", "\t"}

BestMoveInputs ==
    {<<h>> \o ts : h \in BestMoveHeads, ts \in SeqsUpTo(BestMoveTokens, MaxTokens)}

\* parse_bestmove on the trimmed line of the token sequence arg, as
\* parse_usi_line calls it.
ParseBestMove ==
    /\ ret = None
    /\ ret' = Some(parse_bestmove(trim(join(arg))))
    /\ UNCHANGED <<arg, engine, everReady, answers>>
    /\ SessionUnchanged

BestMoveSpec == FnInit(BestMoveInputs) /\ [][ParseBestMove]_vars

\* A token of a joined line that is no whitespace.
IsToken(t) == t \notin {"", "\t"}

\* C14: parse_bestmove on a trimmed line with the prefix "bestmove": with
\* fewer than 2 tokens it gives Unknown, otherwise BestMove with token[1]
\* as the move and with token[3] as the ponder move exactly when there are
\* at least 4 tokens and token[2] is "ponder".
C14_BestMoveFields ==
    ret # None =>
        LET toks == SelectSeq(arg, IsToken)
        IN  IF Len(toks) < 2
            THEN ret[1].tag = "Unknown"
            ELSE ret[1] = BestMove(toks[2],
                                   IF Len(toks) >= 4 /\ toks[3] = "ponder"
                                   THEN Some(toks[4]) ELSE None)

\* C14: "bestmove 7g7f ponder 3c3d" gave the move 7g7f with ponder 3c3d.
C14_Witness ==
    /\ arg = <<"bestmove", "7g7f", "ponder", "3c3d">>
    /\ ret = Some(BestMove("7g7f", Some("3c3d")))

\* ---------------------------------------------------------------------
\* build_position_command (PositionSpec)

\* The boards of the position lines built.
Boards == Sfens \cup {"lnsgkgsnl/1b5r1/ppppppppp/9/9/9/PPPPPPPPP/1R5B1/LNSGKGSNL b - 1"}

\* Whitespace-free move tokens: moves, a drop, the word "moves", the empty token.
MoveTokens == {"7g7f", "3c3d", "P*5e", "moves", ""}

PositionInputs ==
    {[sfen |-> b, moves |-> ms] : b \in Boards, ms \in SeqsUpTo(MoveTokens, MaxTokens)}

\* build_position_command(arg.sfen, arg.moves)
BuildPosition ==
    /\ ret = None
    /\ ret' = Some(build_position_command(arg.sfen, arg.moves))
    /\ UNCHANGED <<arg, engine, everReady, answers>>
    /\ SessionUnchanged

PositionSpec == FnInit(PositionInputs) /\ [][BuildPosition]_vars

\* The least index at which sep occurs in s, 0 if it does not.
FirstIndexOf(s, sep) ==
    LET at == {i \in 1..(Len(s) - Len(sep) + 1) : SubSeq(s, i, i + Len(sep) - 1) = sep}
    IN  IF at = {} THEN 0 ELSE CHOOSE i \in at : \A j \in at : i <= j

\* s split at every space: the pieces, empty ones included.
RECURSIVE SplitOnSpaces(_)
SplitOnSpaces(s) ==
    LET k == FirstIndexOf(s, " ")
    IN  IF k = 0 THEN <<s>>
        ELSE <<SubSeq(s, 1, k - 1)>> \o SplitOnSpaces(SubSeq(s, k + 1, Len(s)))

\* The move list read back from a position line: what follows the first
\* " moves ", split at the spaces.
MovesOf(out) ==
    LET k == FirstIndexOf(out, " moves ")
    IN  SplitOnSpaces(SubSeq(out, k + Len(" moves "), Len(out)))

\* C15: build_position_command round-trips for every sequence of
\* whitespace-free move tokens: with moves the line is "position sfen",
\* the board, " moves " and the moves, and the part after the first
\* " moves " split at the spaces is the sequence of moves in order; without
\* moves the line is exactly "position sfen" and the board, with no
\* "moves" token in it.
C15_PositionRoundTrip ==
    ret # None =>
        LET out == ret[1]
            head == "position sfen " \o arg.sfen
        IN  IF arg.moves = << >>
            THEN /\ out = head
                 /\ \A i \in 1..Len(SplitOnSpaces(out)) : SplitOnSpaces(out)[i] # "moves"
            ELSE /\ starts_with(out, head \o " moves ")
                 /\ FirstIndexOf(out, " moves ") = Len(head) + 1
                 /\ MovesOf(out) = arg.moves

\* C15: three moves were read back in order from the line built.
C15_Witness ==
    /\ ret # None /\ arg.moves = <<"7g7f", "3c3d", "P*5e">>
    /\ ret[1] = "position sfen 9/9/9 b - 1 moves 7g7f 3c3d P*5e"


\* ---------------------------------------------------------------------
\* The application shell: EngineState and its four commands (ShellSpec)

InitialPosition == "lnsgkgsnl/1b5r1/ppppppppp/9/9/9/PPPPPPPPP/1R5B1/LNSGKGSNL b - 1"

MsgInitialized == "Engine initialized successfully"
MsgShutdown == "Engine shutdown successfully"
ErrNotInitialized == "Engine not initialized"
ErrNotRunning == "Engine not running"
ErrInvalidSfen == "Invalid SFEN format"

\* MockEngine::new, init, quit and is_ready.
MockEngine_new == [initialized |-> FALSE]
MockEngine_init(e) == [e EXCEPT !.initialized = TRUE]
MockEngine_quit(e) == [e EXCEPT !.initialized = FALSE]
MockEngine_is_ready(e) == e.initialized

\* The first moves the stand-in engine knows for a position key.
opening_moves(key) ==
    IF key = InitialPosition THEN <<"7g7f", "2g2f", "5g5f", "6g6f">> ELSE << >>

\* A variant of generate_mock_move that answers every board without
\* looking at its fields.
generate_mock_move_any(sfen) == Ok("7g7f")

\* generate_mock_move: the first known move of the position made of the
\* board's first four fields, "7g7f" for every other position.
generate_mock_move(sfen) ==
    LET sfen_parts == split_whitespace(sfen)
    IN  IF Len(sfen_parts) < 4 THEN Err(ErrInvalidSfen)
        ELSE LET position_key == join(SubSeq(sfen_parts, 1, 4))
                 moves == opening_moves(position_key)
             IN  IF moves # << >> THEN Ok(moves[1]) ELSE Ok("7g7f")

\* MockEngine::get_best_move(sfen, _time_ms)
MockEngine_get_best_move(e, sfen) ==
    IF ~e.initialized THEN Err(ErrNotInitialized) ELSE generate_mock_move(sfen)

\* The slot left by Option::take in shutdown_engine.
Taken(slot) == None

\* Boards handed to get_ai_move: the initial position with and without
\* surrounding blanks, another position, a board of three fields, the
\* empty board.
ShellBoards ==
    { InitialPosition, "  " \o InitialPosition \o " ",
      "9/9/9/9/9/9/9/9/9 w - 5", "9/9/9/9/9/9/9/9/9 w -", "" }

\* The boards of ShellBoards with fewer than four whitespace-separated fields.
ShortBoards == {"9/9/9/9/9/9/9/9/9 w -", ""}

ShellTimes == {0, 1000}

ShellCall(op, sfen) == [op |-> op, sfen |-> sfen, was_ready |-> everReady]

ShellInit ==
    /\ SessionInit(TRUE)
    /\ arg = [op |-> "new", sfen |-> "", was_ready |-> FALSE]
    /\ ret = None
    /\ engine = None
    /\ everReady = FALSE
    /\ answers = [b \in ShellBoards |-> {}]

\* init_engine: a new stand-in engine, initialised, replaces the slot.
init_engine ==
    /\ arg' = ShellCall("init_engine", "")
    /\ LET e == MockEngine_init(MockEngine_new)
       IN  /\ engine' = Some(e)
           /\ ret' = Some(Ok(MsgInitialized))
    /\ everReady' = TRUE
    /\ UNCHANGED answers
    /\ SessionUnchanged

\* get_ai_move(sfen, time_ms)
get_ai_move ==
    \E sfen \in ShellBoards, time_ms \in ShellTimes :
        LET r == IF engine # None
                 THEN MockEngine_get_best_move(engine[1], sfen)
                 ELSE Err(ErrNotInitialized)
        IN  /\ arg' = ShellCall("get_ai_move", sfen)
            /\ ret' = Some(r)
            /\ answers' = IF everReady
                          THEN [answers EXCEPT ![sfen] = @ \cup {r}]
                          ELSE answers
            /\ UNCHANGED <<engine, everReady>>
            /\ SessionUnchanged

\* shutdown_engine: the engine is taken out of the slot and quit.
shutdown_engine ==
    /\ arg' = ShellCall("shutdown_engine", "")
    /\ IF engine # None
       THEN /\ engine' = Taken(engine)
            /\ ret' = Some(Ok(MsgShutdown))
            /\ everReady' = FALSE
       ELSE /\ ret' = Some(Err(ErrNotRunning))
            /\ UNCHANGED <<engine, everReady>>
    /\ UNCHANGED answers
    /\ SessionUnchanged

\* is_engine_ready
is_engine_ready ==
    /\ arg' = ShellCall("is_engine_ready", "")
    /\ ret' = Some(Ok(engine # None /\ MockEngine_is_ready(engine[1])))
    /\ UNCHANGED <<engine, everReady, answers>>
    /\ SessionUnchanged

ShellNext == init_engine \/ get_ai_move \/ shutdown_engine \/ is_engine_ready

ShellSpec == ShellInit /\ [][ShellNext]_vars

LinesSent(log) == [i \in 1..Len(SentLines(log)) |-> SentLines(log)[i].line]

\* get_best_move has returned a move or the timeout error.
GbmReturnedOrTimedOut ==
    /\ call.op = "get_best_move" /\ pc = "idle"
    /\ result.ok \/ result.val = ErrTimeout

\* The two lines of a search on board sfen with time_ms to think: the
\* position line without a move list, then the go line.
SearchLinesFor(sfen, time_ms) ==
    <<"position sfen " \o sfen, build_go_byoyomi_command(time_ms)>>

\* Move lists a caller of the search may hold.
CallerMoveLists == SeqsUpTo({"7g7f", "3c3d"}, 2)

RECURSIVE BeforeFirstError(_)
BeforeFirstError(stream) ==
    IF stream = << >> \/ ~IsValidLine(Head(stream)) THEN << >>
    ELSE <<Head(stream)>> \o BeforeFirstError(Tail(stream))

\* The lines the reader thread has appended to the buffer so far: those
\* returned to the caller and those still buffered.
Appended == received \o response_buffer

\* C18: the reader thread appends the lines of the engine's output in order
\* and stops at the first read error: the lines appended are never more than
\* the lines the engine wrote ahead of its first unreadable line.
C18_ReaderStopsAtError ==
    \A p \in ProcIds : pstate[p] # "unspawned" =>
        LET upto == BeforeFirstError(written[p])
        IN  /\ Len(Appended) <= Len(upto)
            /\ Appended = SubSeq(upto, 1, Len(Appended))


\* ---------------------------------------------------------------------
\* The lock of the line buffer (RecvSpec)

\* The reader threads that are at their push.
Pushing == {p \in ProcIds : rpc[p] = "push"}

\* C19: the lock of the line buffer is never held across a blocking
\* operation: the caller holds it exactly while it looks at the buffer in
\* read_response_line, not while it tests the timeout or sleeps; a reader
\* thread holds it exactly while it is at its push, not while it reads the
\* next line; so the holder's next step is its one removal or append, which
\* frees the lock.
C19_LockNotHeldBlocking ==
    /\ mutex \in {"free", "caller", "reader"}
    /\ (mutex = "caller") = (pc = "rrl_check")
    /\ (mutex = "reader") = (Pushing # {})
    /\ Cardinality(Pushing) <= 1
    /\ pc \in {"rrl_timeout", "rrl_sleep"} => mutex # "caller"
    /\ \A p \in ProcIds : rpc[p] \in {"read", "lock"} => p \notin Pushing

\* C19: the caller sleeps between two polls while a reader thread holds the
\* lock for its push, and a line is already in the buffer.
C19_Witness ==
    /\ pc = "rrl_sleep" /\ mutex = "reader" /\ Pushing # {}
    /\ response_buffer # << >>


\* ---------------------------------------------------------------------
\* UsiEngine::stop (SearchSpec)

\* A step that is a call of stop.
StopStep == pc = "idle" /\ call'.op = "stop" /\ UNCHANGED <<pstate, pipe, rpc>>

\* C20: stop writes the one line "stop" when its write succeeds and nothing
\* when it fails, returns at once without a wait and without taking a line:
\* the line buffer, the lines returned, the child and the input handle are
\* after the call what they were before it; with no process started it
\* returns the not-started error and has written nothing.
C20_StopFrame ==
    [][StopStep =>
          /\ pc' = "idle"
          /\ UNCHANGED <<child, stdin, response_buffer, received>>
          /\ result' = send_command
          /\ LinesSent(oplog') = IF send_command.ok THEN <<"stop">> ELSE << >>
          /\ stdin = 0 => result' = Err(ErrNotStarted) /\ LinesSent(oplog') = << >>
      ]_vars

\* C20: stop has returned after it wrote "stop" while a line of the engine
\* was still in the buffer.
C20_Witness ==
    /\ call.op = "stop" /\ pc = "idle" /\ result.ok
    /\ LinesSent(oplog) = <<"stop">>
    /\ response_buffer # << >>


\* ---------------------------------------------------------------------
\* Starts and quits in any order while the engines write (RestartSpec)

\* A session whose caller calls start and quit in any order, every spawn
\* succeeding, while each started engine writes lines and may exit.
RestartNext ==
    \/ CallStart(TRUE)
    \/ CallQuit(FALSE)
    \/ QuitKill
    \/ \E p \in ProcIds, line \in LifeLines : EngineWrite(p, line)
    \/ \E p \in ProcIds : EngineExit(p)
    \/ Reader

RestartSpec == Init /\ [][RestartNext]_vars

\* The reader threads that have not ended: each can still append.
LiveReaders == {p \in ProcIds : rpc[p] \in {"read", "lock", "push"}}

\* At most one reader thread is alive.
OneProducer == Cardinality(LiveReaders) <= 1

\* The buffer holds lines of the owned process only: no call of this
\* scenario removes a line, so it is a prefix of what that process wrote.
BufferOfOwned ==
    child # 0 =>
        /\ Len(response_buffer) <= Len(written[child])
        /\ response_buffer = SubSeq(written[child], 1, Len(response_buffer))

\* C21: over every sequence of start and quit calls at most one reader
\* thread at a time can append to the buffer, and every line in the buffer
\* was written by the process the session owns.
C21_SingleProducer == OneProducer /\ BufferOfOwned


\* ---------------------------------------------------------------------
\* The move of a search and its request (AnswerSpec)

\* One started session whose caller calls get_best_move and stop, the
\* history noting at each go line how much the engine had written.
AnswerNext ==
    \/ StartOnce
    \/ \E sfen \in Sfens, time_ms \in ThinkTimes : CallGetBestMove(sfen, time_ms)
    \/ GbmSendGo(TRUE)
    \/ CallStop
    \/ Receive
    \/ \E p \in ProcIds, line \in SearchLines : EngineWrite(p, line)
    \/ \E p \in ProcIds : EngineExit(p)
    \/ Reader

AnswerSpec == Init /\ [][AnswerNext]_vars

\* C22: a move returned by get_best_move answers that same request: the one
\* started process wrote the lines returned so far in the order they were
\* returned, so the BestMove line just returned is line number Len(received)
\* of its output, and it was written after the go line of the request was
\* sent, that is after the first goMark lines.
C22_MoveAnswersRequest ==
    GbmReturnedOk => Len(received) > goMark


\* ---------------------------------------------------------------------
\* The processes a session spawned (LifeSpec)

\* The processes spawned and not yet waited for, running or dead.
Unreaped == {p \in ProcIds : pstate[p] \in {"running", "exited"}}

\* Every process not yet waited for is the one the session owns.
NoneUnowned == \A p \in Unreaped : child = p

\* A session that was dropped has waited for every process it spawned.
DroppedReleasedAll == pc = "dropped" => Unreaped = {}

\* C23: a session owns at most one process at a time and releases every
\* process it spawned: a process that was spawned and is not yet killed and
\* waited for is the one the child field holds, so none is left once quit
\* has cleared the field, a start on a started session leaves none behind,
\* and none is left when the session has been dropped.
C23_ProcessesReleased == NoneUnowned /\ DroppedReleasedAll

====
